---- MODULE Spec2Model ----
(***************************************************************************)
(* Workflow execution engine (backend/workflows/workflow_engine.py),       *)
(* workflow scheduler (backend/workflows/scheduler.py), workflow manager   *)
(* (backend/workflows/workflow_manager.py) and agent orchestrator          *)
(* (backend/agents/orchestrator.py) as state machines.                     *)
(*                                                                         *)
(* All run on one asyncio event loop: a coroutine runs without             *)
(* interruption from one await that really suspends to the next, so each   *)
(* action below is one such segment of a handler.                          *)
(***************************************************************************)
EXTENDS Integers, Sequences, FiniteSets, TLC

VARIABLES
    \* ---- engine ----
    workflow_steps,   \* Workflow.steps: the declared steps (id = position)
    step_status,      \* WorkflowStep.status of each step object of the stored workflow
    step_error,       \* WorkflowStep.error
    step_result,      \* WorkflowStep.result
    executions,       \* WorkflowEngine.executions: execution id -> WorkflowExecution
    \* ---- scheduler ----
    SCHEDULER_AVAILABLE, \* module flag: the scheduling backend could be imported
    wiring,              \* who built the scheduler: "main" (main.py) or "direct"
    db_session_factory,  \* WorkflowScheduler.db_session_factory is set
    scheduled_tasks,     \* WorkflowScheduler.scheduled_tasks: task id -> object handle
    task_objs,           \* the ScheduledTask objects alive in the process
    jobs,                \* the job store of the live scheduler
    db_rows,             \* durable rows of ScheduledTaskModel: task id -> row
    runs,                \* _run_workflow coroutines suspended in engine.execute
    now,                 \* the clock
    issued,              \* task ids schedule() has drawn so far (uuid4 never repeats)
    cancel_ok,           \* task ids for which cancel() has returned True
    load_done,           \* load_persisted_tasks() has just returned, and how it was called
    schedule_result,     \* what the latest call of schedule() came to, "no" after any other step
    emitted,             \* the events the latest handler step passed to emit_event
    run_now_quiet,       \* task objects with a run_now() run in flight and, since that
                         \* run_now(), no trigger fire, pause, resume or finished run
    \* ---- orchestrator ----
    orch_pc,          \* where OrchestratorAgent.execute stands
    llm_reply,        \* the kind of reply the LLM gave to the decomposition request
    subtasks,         \* TaskDecomposition.subtasks: list of [id, status]
    dependencies,     \* TaskDecomposition.dependencies: subtask id -> prerequisite ids
    completed,        \* TaskDecomposition.completed: subtask id -> AgentResult
    orch_step,        \* the local step of execute: waves run so far
    wave,             \* list positions of the ready tasks handed to _execute_subtasks last
    running,          \* positions of the wave whose run_task is suspended in agent.execute
    task_results,     \* what the finished run_task coroutines of the wave returned
    dispatches,       \* per list position: calls of agent.execute made for the subtask
    orch_result,      \* the AgentResult execute returned
    \* ---- workflow manager ----
    workflows,        \* WorkflowManager.workflows: workflow id -> Workflow
    exported,         \* what the latest export() returned: a JSON string or None
    imported,         \* the id of the workflow the latest import_workflow() returned
    \* ---- engine: the handler of one step ----
    handler_pc,       \* where execute() stands with the step: "idle", "awaiting", "done"
    one_step,         \* the WorkflowStep being executed: type, on_error, config
    one_status,       \* its status
    one_error,        \* its error
    pending_calls,    \* positions of the tool/agent calls that are suspended
    call_results      \* position -> the entry a finished call left for the step's result

engineVars == <<workflow_steps, step_status, step_error, step_result, executions>>
schedVars == <<SCHEDULER_AVAILABLE, wiring, db_session_factory, scheduled_tasks,
               task_objs, jobs, db_rows, runs, now, issued, cancel_ok, load_done,
               run_now_quiet, emitted, schedule_result>>
orchVars == <<orch_pc, llm_reply, subtasks, dependencies, completed, orch_step, wave,
              running, task_results, dispatches, orch_result>>
mgrVars == <<workflows, exported, imported>>
handlerVars == <<handler_pc, one_step, one_status, one_error, pending_calls, call_results>>
vars == <<engineVars, schedVars, orchVars, mgrVars, handlerVars>>

(***************************************************************************)
(* Bounds                                                                  *)
(***************************************************************************)
MaxSteps == 2
MaxRetries == 2
ExecIds == {"e1", "e2"}
MaxTime == 1        \* the clock stops here
MaxRunCount == 1    \* runs of one task object that may be started
MaxInFlight == 1    \* _run_workflow coroutines suspended at one time
TaskOrder == <<"t1">>
TaskIds == {TaskOrder[n] : n \in 1..Len(TaskOrder)}

None == "None"
\* None where a datetime is expected
NoTime == 0 - 1

(***************************************************************************)
(* Engine: data                                                            *)
(***************************************************************************)
PENDING == "pending"
RUNNING == "running"
COMPLETED == "completed"
FAILED == "failed"
SKIPPED == "skipped"
StepStatus == {PENDING, RUNNING, COMPLETED, FAILED, SKIPPED}

\* WorkflowStep defaults
DefaultMaxRetries == 3

\* The guard expressions of a step: none, the name "flag" of a workflow
\* variable, or the name "s1_output" of the first step's output; simpleeval
\* evaluates the name against the context.
Conditions == {None, "flag", "s1_output"}

\* The declared part of a TOOL step
WorkflowStep ==
    [type : {"tool"}, on_error : {"fail", "skip"}, max_retries : {DefaultMaxRetries},
     condition : Conditions]
    \cup
    [type : {"tool"}, on_error : {"retry"}, max_retries : 0..MaxRetries,
     condition : Conditions]

Workflows == UNION {[1..n -> WorkflowStep] : n \in 0..MaxSteps}

NoExec == [status |-> "absent"]

N == Len(workflow_steps)

\* WorkflowExecution(...) as built at the head of execute()
WorkflowExecution(initial_context) ==
    [status |-> "running",
     current_step |-> 0,
     context |-> initial_context,
     step_results |-> <<>>,
     error |-> None,
     pc |-> "start",
     i |-> 0,
     retry |-> 0,
     dispatched |-> {},   \* positions whose handler this call has started
     attempts |-> 0,      \* calls of _execute_step for the step at i
     failures |-> 0,      \* ... that raised
     raised |-> FALSE]    \* some call of _execute_step has raised

Live(e) == e \in DOMAIN executions /\ executions[e] # NoExec

\* _evaluate_condition: the name is looked up in the context; an unknown name
\* raises inside simpleeval and the handler returns False.
evaluate_condition(condition, context) == condition \in context

\* Step ids and the context key "{step.id}_output" of each (line 162)
StepIds == <<"s1", "s2", "s3", "s4">>
OutputKeys == <<"s1_output", "s2_output", "s3_output", "s4_output">>

\* A mutant of the dict assignment: the new key goes to the front
DictSetFront(keys, k) ==
    IF \E p \in 1..Len(keys) : keys[p] = k THEN keys ELSE <<k>> \o keys

\* Python dict assignment d[k] = v on the ordered key list of d
DictSet(keys, k) ==
    IF \E p \in 1..Len(keys) : keys[p] = k THEN keys ELSE Append(keys, k)

(***************************************************************************)
(* Engine: execute()                                                       *)
(***************************************************************************)
\* A mutant of the guard test: no step is ever passed over
GuardIgnored(p, context) == FALSE

\* Line 136: the step at position p is passed over because its guard is false
GuardFalse(p, context) ==
    /\ workflow_steps[p].condition # None
    /\ ~evaluate_condition(workflow_steps[p].condition, context)

\* The first position at or after `from` that the loop dispatches, N + 1 if none
NextDispatched(from, context) ==
    IF \E p \in from..N : ~GuardFalse(p, context)
    THEN CHOOSE p \in from..N :
             /\ ~GuardFalse(p, context)
             /\ \A q \in from..(p - 1) : GuardFalse(q, context)
    ELSE N + 1

\* The for-loop of execute() from position `from` up to its next await (the
\* tool call of the next dispatched step) or to the end of the loop:
\* the execution record afterwards.
LoopExecution(x, from) ==
    LET first == NextDispatched(from, x.context) IN
    IF first <= N
    THEN [x EXCEPT !.current_step = first - 1,
                   !.i = first,
                   !.retry = 0,
                   !.pc = "await_step",
                   !.dispatched = @ \cup {first},
                   !.attempts = 1,
                   !.failures = 0]
    ELSE [x EXCEPT !.current_step = IF from <= N THEN N - 1 ELSE @,
                   !.i = N + 1,
                   !.pc = "returned",
                   !.status = "completed"]

\* ... and the status of the step objects afterwards
LoopStatus(status, x, from) ==
    LET first == NextDispatched(from, x.context) IN
    [p \in 1..N |->
        IF p >= from /\ p < first THEN SKIPPED
        ELSE IF p = first THEN RUNNING
        ELSE status[p]]

\* A mutant of the outer handler: the error is swallowed without a record
FailExecutionSilent(x) ==
    [x EXCEPT !.pc = "returned"]

\* Lines 205-208: an exception leaves the loop
FailExecution(x) ==
    [x EXCEPT !.status = "failed", !.error = "error", !.pc = "returned"]

\* execute(workflow, initial_context) up to its first await
Execute(initial_context) ==
    /\ \E f \in DOMAIN executions : ~Live(f)
    /\ LET e == CHOOSE f \in DOMAIN executions : ~Live(f)
           x == WorkflowExecution(initial_context)
       IN /\ executions' = [executions EXCEPT ![e] = LoopExecution(x, 1)]
          /\ step_status' = LoopStatus(step_status, x, 1)
    /\ UNCHANGED <<workflow_steps, step_error, step_result, schedVars, orchVars, mgrVars, handlerVars>>

\* Lines 155-167: the awaited _execute_step returns a result
StepSucceeds(e) ==
    /\ Live(e)
    /\ executions[e].pc = "await_step"
    /\ LET x == executions[e]
           p == x.i
           y == [x EXCEPT !.step_results = DictSet(@, StepIds[p]),
                          !.context = @ \cup {OutputKeys[p]}]
           status == [step_status EXCEPT ![p] = COMPLETED]
       IN /\ executions' = [executions EXCEPT ![e] = LoopExecution(y, p + 1)]
          /\ step_status' = LoopStatus(status, y, p + 1)
          /\ step_result' = [step_result EXCEPT ![p] = "result"]
    /\ UNCHANGED <<workflow_steps, step_error, schedVars, orchVars, mgrVars, handlerVars>>

\* A mutant of the skip policy: on_error = "skip" is treated as "fail"
SkipPolicyOff(step) == FALSE

\* Line 172: the step's policy for an error is to skip the step
SkipPolicy(step) == step.on_error = "skip"

\* Lines 169-193: the awaited _execute_step raises
StepRaises(e) ==
    /\ Live(e)
    /\ executions[e].pc = "await_step"
    /\ LET x == [executions[e] EXCEPT !.failures = @ + 1, !.raised = TRUE]
           p == x.i
           step == workflow_steps[p]
       IN /\ step_error' = [step_error EXCEPT ![p] = "error"]
          /\ IF SkipPolicy(step)
             THEN /\ executions' = [executions EXCEPT ![e] = LoopExecution(x, p + 1)]
                  /\ step_status' =
                        LoopStatus([step_status EXCEPT ![p] = SKIPPED], x, p + 1)
             ELSE IF step.on_error = "retry" /\ step.max_retries > 0
             THEN /\ executions' = [executions EXCEPT
                                       ![e] = [x EXCEPT !.retry = 0, !.pc = "await_sleep"]]
                  /\ UNCHANGED step_status
             ELSE /\ executions' = [executions EXCEPT ![e] = FailExecution(x)]
                  /\ step_status' = [step_status EXCEPT ![p] = FAILED]
    /\ UNCHANGED <<workflow_steps, step_result, schedVars, orchVars, mgrVars, handlerVars>>

\* Lines 182-183: the backoff sleep ends and the step is called again
RetrySleepEnds(e) ==
    /\ Live(e)
    /\ executions[e].pc = "await_sleep"
    /\ executions' = [executions EXCEPT ![e].pc = "await_retry",
                                        ![e].attempts = @ + 1]
    /\ UNCHANGED <<workflow_steps, step_status, step_error, step_result, schedVars, orchVars, mgrVars, handlerVars>>

\* Lines 183-186: a retry returns a result
RetrySucceeds(e) ==
    /\ Live(e)
    /\ executions[e].pc = "await_retry"
    /\ LET x == executions[e]
           p == x.i
       IN /\ executions' = [executions EXCEPT ![e] = LoopExecution(x, p + 1)]
          /\ step_status' =
                LoopStatus([step_status EXCEPT ![p] = COMPLETED], x, p + 1)
          /\ step_result' = [step_result EXCEPT ![p] = "result"]
    /\ UNCHANGED <<workflow_steps, step_error, schedVars, orchVars, mgrVars, handlerVars>>

\* A mutant of the retry loop: one iteration short
LastRetryShort(step, retry) == retry >= step.max_retries - 2

\* Line 189: this was the last iteration of range(max_retries)
LastRetry(step, retry) == retry = step.max_retries - 1

\* Lines 187-190: a retry raises
RetryRaises(e) ==
    /\ Live(e)
    /\ executions[e].pc = "await_retry"
    /\ LET x == [executions[e] EXCEPT !.failures = @ + 1, !.raised = TRUE]
           step == workflow_steps[x.i]
       IN IF LastRetry(step, x.retry)
          THEN executions' = [executions EXCEPT ![e] = FailExecution(x)]
          ELSE executions' = [executions EXCEPT
                                 ![e] = [x EXCEPT !.retry = @ + 1, !.pc = "await_sleep"]]
    /\ UNCHANGED <<workflow_steps, step_status, step_error, step_result, schedVars, orchVars, mgrVars, handlerVars>>

\* WorkflowEngine.cancel(execution_id) returning True
CancelExecution(e) ==
    /\ Live(e)
    /\ executions[e].status = "running"
    /\ executions' = [executions EXCEPT ![e].status = "cancelled"]
    /\ UNCHANGED <<workflow_steps, step_status, step_error, step_result, schedVars, orchVars, mgrVars, handlerVars>>

(***************************************************************************)
(* Scheduler: data                                                         *)
(***************************************************************************)
\* Python dicts
EmptyDict == [k \in {} |-> None]
Put(d, k, v) == [x \in DOMAIN d \cup {k} |-> IF x = k THEN v ELSE d[x]]
Del(d, k) == [x \in DOMAIN d \ {k} |-> d[x]]
Restrict(d, ks) == [x \in DOMAIN d \cap ks |-> d[x]]

\* Object handles: enough for one task object per table entry and one stale
\* object per suspended run
Handles == 1..(Len(TaskOrder) + MaxInFlight)

\* WorkflowManager.workflows
WorkflowIds == {"wf"}

\* workflow_id as schedule() receives it: schedule() does not look it up
RequestedWorkflowIds == WorkflowIds \cup {"nowf"}

\* What engine.execute gives back to _run_workflow: an execution with this
\* status, or an exception
ExecuteOutcomes == {"completed", "failed", "raised"}

\* emit_event(event_type, data): the type and, where the data has one, the
\* execution status
Event(type, status) == [type |-> type, status |-> status]

\* trigger_type and trigger_config as schedule() receives them.  A run_date
\* is an ISO string with ("aware") or without a UTC offset.  A config is not
\* valid when the trigger's constructor cannot read it: a cron field that is
\* no cron expression, an interval part that is no number, a run_date that
\* is no ISO date.
TriggerInputs ==
    [trigger_type : {"cron", "interval"}, run_date : {NoTime}, aware : {TRUE},
     valid : {TRUE}]
    \cup
    [trigger_type : {"date"}, run_date : 0..MaxTime, aware : BOOLEAN, valid : {TRUE}]
    \cup
    [trigger_type : {"cron", "interval", "date"}, run_date : {NoTime}, aware : {TRUE},
     valid : {FALSE}]
    \cup
    [trigger_type : {"webhook"}, run_date : {NoTime}, aware : {TRUE}, valid : {TRUE}]

\* The clock counts the ticks that have begun and a handler runs inside a
\* tick, so the instant t lies before datetime.now() exactly when t <= now.
Before(t, clock) == t <= clock

\* _create_trigger: None without the backend or for an unknown trigger type
create_trigger(trigger_type) ==
    IF ~SCHEDULER_AVAILABLE THEN None
    ELSE IF trigger_type \in {"cron", "interval", "date"} THEN trigger_type
    ELSE None

\* trigger.get_next_fire_time(None, now): a date trigger answers its date,
\* past or not; a recurring one its next instant after now
next_fire_time(trigger_type, run_date) ==
    IF trigger_type = "date" THEN run_date ELSE now + 1

JobsOf(js, id) == {j \in js : j.id = id}

\* scheduler.get_job(id)
get_job(js, id) == CHOOSE j \in JobsOf(js, id) : TRUE

\* The row _persist_task writes for a task object
RowOf(task) ==
    [workflow_id |-> task.workflow_id,
     trigger_type |-> task.trigger_type,
     run_date |-> task.run_date,
     aware |-> task.aware,
     enabled |-> task.enabled,
     last_run |-> task.last_run,
     next_run |-> task.next_run,
     run_count |-> task.run_count]

\* _persist_task: insert or update the row, nothing without a session factory
persist_task(rows, task) ==
    IF db_session_factory THEN Put(rows, task.id, RowOf(task)) ELSE rows

\* _delete_persisted_task
delete_persisted_task(rows, id) ==
    IF db_session_factory THEN Del(rows, id) ELSE rows

\* Objects still referenced by the table or by a suspended run
Collect(objs, table, rs) ==
    Restrict(objs, {table[id] : id \in DOMAIN table} \cup DOMAIN rs)

FreshHandle(objs) ==
    CHOOSE h \in Handles \ DOMAIN objs : \A g \in Handles \ DOMAIN objs : h <= g

InFlight == LET Sum[hs \in SUBSET DOMAIN runs] ==
                    IF hs = {} THEN 0
                    ELSE LET h == CHOOSE g \in hs : TRUE
                         IN runs[h].manual + runs[h].fired + Sum[hs \ {h}]
            IN Sum[DOMAIN runs]

\* The executor's count of running instances of the job with this id
Instances(id) ==
    Cardinality({h \in DOMAIN runs : task_objs[h].id = id /\ runs[h].fired > 0})

\* the coroutine _run_workflow(task) started and suspended in engine.execute
StartRun(rs, h, kind) ==
    LET r == IF h \in DOMAIN rs THEN rs[h] ELSE [manual |-> 0, fired |-> 0]
    IN Put(rs, h, IF kind = "fired" THEN [r EXCEPT !.fired = @ + 1]
                                    ELSE [r EXCEPT !.manual = @ + 1])

EndRun(rs, h, kind) ==
    LET r == IF kind = "fired" THEN [rs[h] EXCEPT !.fired = @ - 1]
                               ELSE [rs[h] EXCEPT !.manual = @ - 1]
    IN IF r.manual + r.fired = 0 THEN Del(rs, h) ELSE Put(rs, h, r)

\* Runs of this object started so far, finished or not
Started(h) ==
    task_objs[h].run_count
        + (IF h \in DOMAIN runs THEN runs[h].manual + runs[h].fired ELSE 0)

\* Line 288: workflow_manager.get(task.workflow_id) finds the workflow
WorkflowFound(h) == task_objs[h].workflow_id \in WorkflowIds

\* Lines 281-294: what _run_workflow emits before it awaits engine.execute
RunStartEvents(h) ==
    {Event("scheduled_run_started", None)}
        \cup (IF WorkflowFound(h) THEN {} ELSE {Event("scheduled_run_failed", None)})

MayStartRun(h) ==
    /\ InFlight < MaxInFlight
    /\ Started(h) < MaxRunCount

(***************************************************************************)
(* Scheduler: operations                                                   *)
(***************************************************************************)
\* Lines 254-275: the constructor of the trigger raises on a config it
\* cannot read, and nothing in _create_trigger or schedule() catches it
TriggerRaises(trig) ==
    /\ SCHEDULER_AVAILABLE
    /\ trig.trigger_type \in {"cron", "interval", "date"}
    /\ ~trig.valid

\* What schedule() comes to: a task, None, or an exception
ScheduleResult(trig) ==
    IF ~SCHEDULER_AVAILABLE THEN "None"
    ELSE IF TriggerRaises(trig) THEN "raised"
    ELSE IF create_trigger(trig.trigger_type) = None THEN "None"
    ELSE "task"

\* schedule(workflow_id, name, trigger_type, trigger_config)
Schedule(workflow_id, trig) ==
    /\ schedule_result' = ScheduleResult(trig)
    /\ IF ScheduleResult(trig) = "task"
       THEN /\ \E n \in 1..Len(TaskOrder) : TaskOrder[n] \notin issued
            /\ LET n == CHOOSE m \in 1..Len(TaskOrder) :
                            /\ TaskOrder[m] \notin issued
                            /\ \A l \in 1..(m - 1) : TaskOrder[l] \in issued
                   task_id == TaskOrder[n]
                   h == FreshHandle(task_objs)
                   next_run_time == next_fire_time(trig.trigger_type, trig.run_date)
                   job == [id |-> task_id, task |-> h, trigger_type |-> trig.trigger_type,
                           run_date |-> trig.run_date, next_run_time |-> next_run_time]
                   task == [id |-> task_id, workflow_id |-> workflow_id,
                            trigger_type |-> trig.trigger_type, run_date |-> trig.run_date,
                            aware |-> trig.aware, enabled |-> TRUE, last_run |-> NoTime,
                            next_run |-> next_run_time, run_count |-> 0]
               IN /\ issued' = issued \cup {task_id}
                  /\ jobs' = jobs \cup {job}
                  /\ task_objs' = Put(task_objs, h, task)
                  /\ scheduled_tasks' = Put(scheduled_tasks, task_id, h)
                  /\ db_rows' = persist_task(db_rows, task)
            /\ emitted' = {Event("task_scheduled", None)}
       ELSE /\ UNCHANGED <<issued, jobs, task_objs, scheduled_tasks, db_rows>>
            /\ emitted' = {}
    /\ UNCHANGED <<SCHEDULER_AVAILABLE, wiring, db_session_factory, runs, now,
                   cancel_ok, engineVars, orchVars, mgrVars, handlerVars>>
    /\ load_done' = "no"
    /\ run_now_quiet' = run_now_quiet

\* pause(task_id) returning True (pause_job raises for an id without a job)
Pause(task_id) ==
    /\ SCHEDULER_AVAILABLE
    /\ task_id \in DOMAIN scheduled_tasks
    /\ JobsOf(jobs, task_id) # {}
    /\ LET h == scheduled_tasks[task_id]
           task == [task_objs[h] EXCEPT !.enabled = FALSE]
       IN /\ jobs' = {IF j.id = task_id THEN [j EXCEPT !.next_run_time = NoTime] ELSE j :
                        j \in jobs}
          /\ task_objs' = Put(task_objs, h, task)
          /\ db_rows' = persist_task(db_rows, task)
    /\ UNCHANGED <<SCHEDULER_AVAILABLE, wiring, db_session_factory, scheduled_tasks,
                   runs, now, issued, cancel_ok, engineVars, orchVars, mgrVars, handlerVars>>
    /\ load_done' = "no"
    /\ run_now_quiet' = run_now_quiet \ {h \in DOMAIN task_objs : task_objs[h].id = task_id}
    /\ emitted' = {Event("task_paused", None)}
    /\ schedule_result' = "no"

\* resume(task_id) returning True
Resume(task_id) ==
    /\ SCHEDULER_AVAILABLE
    /\ task_id \in DOMAIN scheduled_tasks
    /\ JobsOf(jobs, task_id) # {}
    /\ LET h == scheduled_tasks[task_id]
           t == next_fire_time(task_objs[h].trigger_type, task_objs[h].run_date)
           task == [task_objs[h] EXCEPT !.enabled = TRUE, !.next_run = t]
       IN /\ jobs' = {IF j.id = task_id THEN [j EXCEPT !.next_run_time = t] ELSE j :
                        j \in jobs}
          /\ task_objs' = Put(task_objs, h, task)
          /\ db_rows' = persist_task(db_rows, task)
    /\ UNCHANGED <<SCHEDULER_AVAILABLE, wiring, db_session_factory, scheduled_tasks,
                   runs, now, issued, cancel_ok, engineVars, orchVars, mgrVars, handlerVars>>
    /\ load_done' = "no"
    /\ run_now_quiet' = run_now_quiet \ {h \in DOMAIN task_objs : task_objs[h].id = task_id}
    /\ emitted' = {Event("task_resumed", None)}
    /\ schedule_result' = "no"

\* cancel(task_id) returning True (remove_job raises for an id without a job)
Cancel(task_id) ==
    /\ task_id \in DOMAIN scheduled_tasks
    /\ SCHEDULER_AVAILABLE => JobsOf(jobs, task_id) # {}
    /\ jobs' = jobs \ JobsOf(jobs, task_id)
    /\ scheduled_tasks' = Del(scheduled_tasks, task_id)
    /\ task_objs' = Collect(task_objs, Del(scheduled_tasks, task_id), runs)
    /\ db_rows' = delete_persisted_task(db_rows, task_id)
    /\ cancel_ok' = cancel_ok \cup {task_id}
    /\ UNCHANGED <<SCHEDULER_AVAILABLE, wiring, db_session_factory, runs, now,
                   issued, engineVars, orchVars, mgrVars, handlerVars>>
    /\ load_done' = "no"
    /\ run_now_quiet' = run_now_quiet
    /\ emitted' = {Event("task_cancelled", None)}
    /\ schedule_result' = "no"

\* run_now(task_id) returning True, and the created coroutine up to its
\* await of engine.execute (or to its return, the workflow missing)
RunNow(task_id) ==
    /\ task_id \in DOMAIN scheduled_tasks
    /\ LET h == scheduled_tasks[task_id]
       IN /\ WorkflowFound(h) => MayStartRun(h)
          /\ runs' = IF WorkflowFound(h) THEN StartRun(runs, h, "manual") ELSE runs
          /\ run_now_quiet' = IF ~WorkflowFound(h) \/ (h \in DOMAIN runs /\ runs[h].manual > 0)
                              THEN run_now_quiet
                              ELSE run_now_quiet \cup {h}
          /\ emitted' = RunStartEvents(h)
    /\ UNCHANGED <<SCHEDULER_AVAILABLE, wiring, db_session_factory, scheduled_tasks,
                   task_objs, jobs, db_rows, now, issued, cancel_ok, engineVars, orchVars, mgrVars, handlerVars>>
    /\ load_done' = "no"
    /\ schedule_result' = "no"

\* The live scheduler processes a due job: it starts _run_workflow(task) unless
\* the fire time was missed or an instance of the job is still running
\* (max_instances = 1), then moves the job to its next fire time or, when the
\* trigger has none, removes it.
Fire(j) ==
    /\ SCHEDULER_AVAILABLE
    /\ j \in jobs
    /\ j.next_run_time # NoTime
    /\ Before(j.next_run_time, now)
    /\ LET submit == j.next_run_time = now /\ Instances(j.id) = 0
           suspends == submit /\ WorkflowFound(j.task)
       IN /\ suspends => MayStartRun(j.task)
          /\ runs' = IF suspends THEN StartRun(runs, j.task, "fired") ELSE runs
          /\ emitted' = IF submit THEN RunStartEvents(j.task) ELSE {}
    /\ jobs' = IF j.trigger_type = "date"
               THEN jobs \ {j}
               ELSE (jobs \ {j}) \cup {[j EXCEPT !.next_run_time = now + 1]}
    /\ UNCHANGED <<SCHEDULER_AVAILABLE, wiring, db_session_factory, scheduled_tasks,
                   task_objs, db_rows, now, issued, cancel_ok, engineVars, orchVars, mgrVars, handlerVars>>
    /\ load_done' = "no"
    /\ run_now_quiet' = run_now_quiet \ {h \in DOMAIN task_objs : task_objs[h].id = j.id}
    /\ schedule_result' = "no"

\* Lines 297-325: engine.execute returned an execution to _run_workflow(task),
\* or raised into its except clause
RunEnds(h, kind, outcome) ==
    /\ h \in DOMAIN runs
    /\ IF kind = "fired" THEN runs[h].fired > 0 ELSE runs[h].manual > 0
    /\ LET old == task_objs[h]
           refresh == /\ SCHEDULER_AVAILABLE
                      /\ old.id \in DOMAIN scheduled_tasks
                      /\ JobsOf(jobs, old.id) # {}
           task == IF outcome = "raised" THEN old
                   ELSE [old EXCEPT !.last_run = now,
                                    !.run_count = @ + 1,
                                    !.next_run = IF refresh
                                                 THEN get_job(jobs, old.id).next_run_time
                                                 ELSE @]
       IN /\ db_rows' = IF outcome = "raised" THEN db_rows ELSE persist_task(db_rows, task)
          /\ runs' = EndRun(runs, h, kind)
          /\ task_objs' = Collect(Put(task_objs, h, task), scheduled_tasks,
                                  EndRun(runs, h, kind))
          /\ emitted' = IF outcome = "raised"
                        THEN {Event("scheduled_run_failed", None)}
                        ELSE {Event("scheduled_run_completed", outcome)}
    /\ UNCHANGED <<SCHEDULER_AVAILABLE, wiring, db_session_factory, scheduled_tasks,
                   jobs, now, issued, cancel_ok, engineVars, orchVars, mgrVars, handlerVars>>
    /\ load_done' = "no"
    /\ run_now_quiet' = run_now_quiet \ {h}
    /\ schedule_result' = "no"

\* Time passes; the live scheduler lets no due job wait
Tick ==
    /\ now < MaxTime
    /\ SCHEDULER_AVAILABLE =>
           \A j \in jobs : j.next_run_time = NoTime \/ ~Before(j.next_run_time, now)
    /\ now' = now + 1
    /\ UNCHANGED <<SCHEDULER_AVAILABLE, wiring, db_session_factory, scheduled_tasks,
                   task_objs, jobs, db_rows, runs, issued, cancel_ok, engineVars, orchVars, mgrVars, handlerVars>>
    /\ load_done' = "no"
    /\ run_now_quiet' = run_now_quiet
    /\ emitted' = {}
    /\ schedule_result' = "no"

\* A mutant of the expiry test of load_persisted_tasks: nothing is expired
NeverExpired(row) == FALSE

\* Lines 92-98: the row is a date trigger whose run_date has passed
ExpiredDate(row) ==
    row.trigger_type = "date" /\ Before(row.run_date, now)

\* Line 96: comparing a run_date parsed without an offset with the aware
\* datetime.now(timezone.utc) raises TypeError
CompareRaises(row) == row.trigger_type = "date" /\ ~row.aware

\* add_job: the job store refuses a second job under a registered id
ConflictingId(js, id) == JobsOf(js, id) # {}

\* Lines 76-116: one persisted row of the loop of load_persisted_tasks.
\* st holds the objects, the table and the job store as the loop goes.
LoadRow(st, id) ==
    IF id \notin DOMAIN db_rows \/ ~db_rows[id].enabled THEN st
    ELSE LET row == db_rows[id]
             register == create_trigger(row.trigger_type) # None /\ SCHEDULER_AVAILABLE
         IN IF CompareRaises(row) THEN st
            ELSE IF ExpiredDate(row) THEN st
            ELSE IF register /\ ConflictingId(st.jobs, id) THEN st
            ELSE LET t == next_fire_time(row.trigger_type, row.run_date)
                     table == Del(st.table, id)
                     objs == Collect(st.objs, table, runs)
                     h == FreshHandle(objs)
                     task == [id |-> id, workflow_id |-> row.workflow_id,
                              trigger_type |-> row.trigger_type,
                              run_date |-> row.run_date, aware |-> row.aware,
                              enabled |-> row.enabled, last_run |-> row.last_run,
                              next_run |-> IF register THEN t ELSE NoTime,
                              run_count |-> row.run_count]
                     job == [id |-> id, task |-> h, trigger_type |-> row.trigger_type,
                             run_date |-> row.run_date, next_run_time |-> t]
                 IN [objs |-> Put(objs, h, task),
                     table |-> Put(table, id, h),
                     jobs |-> IF register THEN st.jobs \cup {job} ELSE st.jobs]

RECURSIVE LoadRows(_, _)
LoadRows(st, n) ==
    IF n > Len(TaskOrder) THEN st ELSE LoadRows(LoadRow(st, TaskOrder[n]), n + 1)

\* load_persisted_tasks() with a session factory configured
LoadPersistedTasks ==
    /\ db_session_factory
    /\ LET st == LoadRows([objs |-> task_objs, table |-> scheduled_tasks, jobs |-> jobs], 1)
       IN /\ task_objs' = st.objs
          /\ scheduled_tasks' = st.table
          /\ jobs' = st.jobs
    /\ load_done' = IF scheduled_tasks = EmptyDict /\ jobs = {}
                    THEN "after_restart" ELSE "while_registered"
    /\ run_now_quiet' = run_now_quiet
    /\ UNCHANGED <<SCHEDULER_AVAILABLE, wiring, db_session_factory, db_rows, runs,
                   now, issued, cancel_ok, engineVars, orchVars, mgrVars, handlerVars>>
    /\ emitted' = {}
    /\ schedule_result' = "no"

\* WorkflowScheduler.__init__ in a new process: nothing in memory
SchedulerBuilt ==
    /\ scheduled_tasks = EmptyDict
    /\ task_objs = EmptyDict
    /\ jobs = {}
    /\ runs = EmptyDict

\* ... after a restart of the process
Rebuilt ==
    /\ scheduled_tasks' = EmptyDict
    /\ task_objs' = EmptyDict
    /\ jobs' = {}
    /\ runs' = EmptyDict

\* The process is started again through main.py: startup_event ->
\* initialize_all -> initialize_workflows builds the scheduler without a
\* session factory and nothing calls load_persisted_tasks.
StartupEvent(available) ==
    /\ SCHEDULER_AVAILABLE' = available
    /\ wiring' = "main"
    /\ db_session_factory' = FALSE
    /\ Rebuilt
    /\ UNCHANGED <<db_rows, now, issued, cancel_ok, engineVars, orchVars, mgrVars, handlerVars>>
    /\ load_done' = "no"
    /\ run_now_quiet' = {}
    /\ emitted' = {}
    /\ schedule_result' = "no"

\* The process is started again by a host that passes a session factory (or
\* none) to WorkflowScheduler(...)
NewScheduler(available, factory) ==
    /\ SCHEDULER_AVAILABLE' = available
    /\ wiring' = "direct"
    /\ db_session_factory' = factory
    /\ Rebuilt
    /\ UNCHANGED <<db_rows, now, issued, cancel_ok, engineVars, orchVars, mgrVars, handlerVars>>
    /\ load_done' = "no"
    /\ run_now_quiet' = {}
    /\ emitted' = {}
    /\ schedule_result' = "no"

(***************************************************************************)
(* Orchestrator: data                                                      *)
(***************************************************************************)
\* Subtask ids a decomposition may use
SubtaskOrder == <<"task_1", "task_2", "task_3">>
SubtaskIds == {SubtaskOrder[n] : n \in 1..Len(SubtaskOrder)}

\* An id the decomposition may name as a dependency without declaring it
UnknownId == "task_x"

\* execute(task, context, max_steps = 15)
max_steps == 15

\* The "id" values of the subtask list of a reply, in list order: distinct
\* ids, or, since the LLM chooses them, lists in which an id comes twice
DuplicateIdLists == {<<"task_1", "task_1">>, <<"task_1", "task_2", "task_2">>}
IdLists == {SubSeq(SubtaskOrder, 1, n) : n \in 0..Len(SubtaskOrder)} \cup DuplicateIdLists

\* What a reply with a list of subtask objects leaves in the
\* TaskDecomposition: the ids in list order and, for each id, the dependency
\* list add_subtask stored last
Decompositions ==
    UNION {[ids : {ids},
            dependencies : [{ids[m] : m \in 1..Len(ids)} ->
                               SUBSET ({ids[m] : m \in 1..Len(ids)} \cup {UnknownId})]] :
           ids \in IdLists}

\* Lines 225-241: the decomposition for a reply without a JSON object, or
\* with braces around text that is no JSON
FallbackDecomposition ==
    [ids |-> <<"task_1">>, dependencies |-> [id \in {"task_1"} |-> {}]]

\* Line 245: decomposition_data.get("subtasks", []) of a JSON object that has
\* no "subtasks" key
EmptyDecomposition ==
    [ids |-> <<>>, dependencies |-> EmptyDict]

\* response.content as _decompose_task reads it:
\*   "no_json"      no "{...}" in the text
\*   "invalid_json" braces around text json.loads rejects
\*   "no_subtasks"  a JSON object without a "subtasks" key
\*   "malformed"    a JSON object whose "subtasks" is no list of objects
\*                  (null, a number, a string, a list of strings)
\*   "subtasks"     a JSON object with a list of subtask objects
Replies ==
    [kind : {"subtasks"}, d : Decompositions]
    \cup
    [kind : {"no_json", "invalid_json", "no_subtasks", "malformed"}, d : {EmptyDecomposition}]

\* AgentResult(success, output, error)
AgentResult(success, error) == [success |-> success, error |-> error]

\* execute has not returned yet
NoResult == [success |-> FALSE, error |-> "not returned"]

\* What agent.execute(description, context) does
AgentOutcomes == {"success", "failure", "raises"}

IdsOf(subs) == {subs[n].id : n \in 1..Len(subs)}

\* OrchestratorAgent.__init__: no task yet
OrchestratorIdle ==
    /\ orch_pc = "idle"
    /\ llm_reply = None
    /\ subtasks = <<>>
    /\ dependencies = EmptyDict
    /\ completed = EmptyDict
    /\ orch_step = 0
    /\ wave = {}
    /\ running = {}
    /\ task_results = EmptyDict
    /\ dispatches = <<>>
    /\ orch_result = NoResult

(***************************************************************************)
(* Orchestrator: operations                                                *)
(***************************************************************************)
\* Lines 245-257: the loop over the subtasks raises (a "subtasks" value that
\* cannot be iterated, or an item without .get); only json.JSONDecodeError is
\* caught in _decompose_task
decompose_raises(reply) == reply.kind = "malformed"

\* _decompose_task after the LLM has answered: the TaskDecomposition it returns
decompose_task(reply) ==
    CASE reply.kind \in {"no_json", "invalid_json"} -> FallbackDecomposition
      [] reply.kind = "no_subtasks" -> EmptyDecomposition
      [] reply.kind = "subtasks" -> reply.d
      [] OTHER -> EmptyDecomposition

\* A mutant of the dependency test: an id that is no subtask counts as done
InCompletedOrUndeclared(d, done) == d \in DOMAIN done \/ d \notin IdsOf(subtasks)

\* Line 34: d in self.completed
InCompleted(d, done) == d \in DOMAIN done

\* A mutant of get_ready_tasks: every pending task is ready
get_pending_tasks ==
    {n \in 1..Len(subtasks) : subtasks[n].status = "pending"}

\* TaskDecomposition.get_ready_tasks (as the set of their list positions)
get_ready_tasks ==
    {n \in 1..Len(subtasks) :
        /\ subtasks[n].status = "pending"
        /\ \A d \in dependencies[subtasks[n].id] : InCompleted(d, completed)}

\* Line 39, for every result of the wave: self.completed[task_id] = result
StoreResults(done, results) ==
    [id \in DOMAIN done \cup DOMAIN results |->
        IF id \in DOMAIN results THEN results[id] ELSE done[id]]

\* TaskDecomposition.mark_completed: the status of the first subtask with this id
mark_completed(subs, task_id, result) ==
    [n \in 1..Len(subs) |->
        IF subs[n].id = task_id /\ \A m \in 1..(n - 1) : subs[m].id # task_id
        THEN [subs[n] EXCEPT !.status = IF result.success THEN "completed" ELSE "failed"]
        ELSE subs[n]]

\* Lines 161-163: mark_completed for every result of the wave
RECURSIVE MarkResults(_, _, _)
MarkResults(subs, results, n) ==
    IF n > Len(SubtaskOrder) THEN subs
    ELSE MarkResults(IF SubtaskOrder[n] \in DOMAIN results
                     THEN mark_completed(subs, SubtaskOrder[n], results[SubtaskOrder[n]])
                     ELSE subs,
                     results, n + 1)

\* Lines 312-315: the results dict of _execute_subtasks.  gather returns the
\* pairs in the order of the task list and results[task_id] = result keeps,
\* for an id, the pair that comes last.
ResultsDict(pairs) ==
    [id \in {subtasks[n].id : n \in DOMAIN pairs} |->
        pairs[CHOOSE n \in DOMAIN pairs :
                 /\ subtasks[n].id = id
                 /\ \A m \in DOMAIN pairs : subtasks[m].id = id => m <= n]]

\* A mutant of run_task: an exception of the agent is not caught
CaughtUnlessRaised(outcome) == outcome # "raises"

\* Lines 294-309: whatever agent.execute does, run_task returns a result
Caught(outcome) == TRUE

\* Lines 295-309: the AgentResult run_task returns
RunTaskResult(outcome) ==
    CASE outcome = "success" -> AgentResult(TRUE, None)
      [] outcome = "failure" -> AgentResult(FALSE, "agent error")
      [] outcome = "raises" -> AgentResult(FALSE, "exception")

\* execute(task) up to the loop: the LLM answers the decomposition request
\* with reply.  A reply _decompose_task cannot walk raises into the except of
\* execute, which returns a failed result.  A later call starts from a new
\* TaskDecomposition and shares nothing with this one.
OrchestratorExecute(reply) ==
    /\ orch_pc = "idle"
    /\ llm_reply' = reply.kind
    /\ LET d == decompose_task(reply) IN
       IF decompose_raises(reply)
       THEN /\ orch_pc' = "returned"
            /\ orch_result' = AgentResult(FALSE, "decomposition error")
            /\ UNCHANGED <<subtasks, dependencies, dispatches>>
       ELSE /\ subtasks' = [n \in 1..Len(d.ids) |-> [id |-> d.ids[n], status |-> "pending"]]
            /\ dependencies' = d.dependencies
            /\ dispatches' = [n \in 1..Len(d.ids) |-> 0]
            /\ orch_result' = NoResult
            /\ orch_pc' = "loop"
    /\ completed' = EmptyDict
    /\ orch_step' = 0
    /\ wave' = {}
    /\ running' = {}
    /\ task_results' = EmptyDict
    /\ UNCHANGED <<engineVars, schedVars, mgrVars, handlerVars>>

\* Lines 144-159 and 277-295: the ready tasks go to _execute_subtasks; each
\* run_task runs up to agent.execute, or returns at once when self.agents
\* has no agent for its role (present: the tasks whose agent exists)
DispatchWave(present) ==
    /\ orch_pc = "loop"
    /\ orch_step < max_steps
    /\ get_ready_tasks # {}
    /\ present \subseteq get_ready_tasks
    /\ wave' = get_ready_tasks
    /\ running' = present
    /\ task_results' = [n \in get_ready_tasks \ present |-> AgentResult(FALSE, "no agent")]
    /\ dispatches' = [n \in 1..Len(subtasks) |->
                         IF n \in present THEN dispatches[n] + 1 ELSE dispatches[n]]
    /\ orch_pc' = "wave"
    /\ UNCHANGED <<llm_reply, subtasks, dependencies, completed, orch_step, orch_result,
                   engineVars, schedVars, mgrVars, handlerVars>>

\* Lines 144-156 and 168: the loop ends and _synthesize_results asks the LLM
LeaveLoop ==
    /\ orch_pc = "loop"
    /\ orch_step >= max_steps \/ get_ready_tasks = {}
    /\ orch_pc' = "synthesizing"
    /\ UNCHANGED <<llm_reply, subtasks, dependencies, completed, orch_step, wave, running,
                   task_results, dispatches, orch_result, engineVars, schedVars, mgrVars, handlerVars>>

\* Lines 294-309: agent.execute of the task at position n of the list is over
AgentReturns(n, outcome) ==
    /\ orch_pc = "wave"
    /\ n \in running
    /\ running' = running \ {n}
    /\ IF Caught(outcome)
       THEN /\ task_results' = Put(task_results, n, RunTaskResult(outcome))
            /\ UNCHANGED <<orch_pc, orch_result>>
       ELSE \* the exception leaves gather and reaches the except of execute
            /\ orch_pc' = "returned"
            /\ orch_result' = AgentResult(FALSE, "exception")
            /\ UNCHANGED task_results
    /\ UNCHANGED <<llm_reply, subtasks, dependencies, completed, orch_step, wave,
                   dispatches, engineVars, schedVars, mgrVars, handlerVars>>

\* Lines 312-323 and 161-165: gather has every result; they are folded into
\* completed and the statuses
JoinWave ==
    /\ orch_pc = "wave"
    /\ running = {}
    /\ completed' = StoreResults(completed, ResultsDict(task_results))
    /\ subtasks' = MarkResults(subtasks, ResultsDict(task_results), 1)
    /\ orch_step' = orch_step + 1
    /\ task_results' = EmptyDict
    /\ orch_pc' = "loop"
    /\ UNCHANGED <<llm_reply, dependencies, wave, running, dispatches, orch_result,
                   engineVars, schedVars, mgrVars, handlerVars>>

\* Lines 168-194: the LLM answers the synthesis request, or raises into the
\* except of execute; execute returns an AgentResult either way
SynthesisEnds(ok) ==
    /\ orch_pc = "synthesizing"
    /\ orch_pc' = "returned"
    /\ orch_result' = IF ok THEN AgentResult(TRUE, None) ELSE AgentResult(FALSE, "exception")
    /\ UNCHANGED <<llm_reply, subtasks, dependencies, completed, orch_step, wave, running,
                   task_results, dispatches, engineVars, schedVars, mgrVars, handlerVars>>

(***************************************************************************)
(* Workflow manager: data                                                  *)
(***************************************************************************)
\* export() returned None, and import_workflow() has not been called since
NotExported == [ok |-> FALSE]
NotImported == [ok |-> FALSE]

\* WorkflowManager.__init__ on an empty storage directory
ManagerIdle ==
    /\ workflows = EmptyDict
    /\ exported = NotExported
    /\ imported = NotImported

(***************************************************************************)
(* Engine: the handler of one step, data                                   *)
(***************************************************************************)
\* No step is being executed
NoStep == [type |-> None]

HandlerIdle ==
    /\ handler_pc = "idle"
    /\ one_step = NoStep
    /\ one_status = PENDING
    /\ one_error = None
    /\ pending_calls = {}
    /\ call_results = EmptyDict

(***************************************************************************)
(* Engine: specification                                                   *)
(***************************************************************************)
\* The scheduler of an engine-only run: built, nothing scheduled
SchedulerIdle ==
    /\ SCHEDULER_AVAILABLE = TRUE
    /\ wiring = "direct"
    /\ db_session_factory = FALSE
    /\ SchedulerBuilt
    /\ db_rows = EmptyDict
    /\ now = 0
    /\ issued = {}
    /\ cancel_ok = {}
    /\ load_done = "no"
    /\ run_now_quiet = {}
    /\ emitted = {}
    /\ schedule_result = "no"

\* A stored workflow, none of its steps ever run, and an engine that can hold
\* the executions named in ids
EngineBuilt(ids) ==
    /\ workflow_steps \in Workflows
    /\ step_status = [p \in 1..Len(workflow_steps) |-> PENDING]
    /\ step_error = [p \in 1..Len(workflow_steps) |-> None]
    /\ step_result = [p \in 1..Len(workflow_steps) |-> None]
    /\ executions = [e \in ids |-> NoExec]

\* execute() may be called again while an earlier call is still suspended
InitEngine == EngineBuilt(ExecIds) /\ SchedulerIdle /\ OrchestratorIdle /\ ManagerIdle /\ HandlerIdle

\* one call of execute()
InitExecution == EngineBuilt({"e1"}) /\ SchedulerIdle /\ OrchestratorIdle /\ ManagerIdle /\ HandlerIdle

NextEngine ==
    \/ \E initial_context \in SUBSET {"flag"} : Execute(initial_context)
    \/ \E e \in ExecIds : StepSucceeds(e)
    \/ \E e \in ExecIds : StepRaises(e)
    \/ \E e \in ExecIds : RetrySleepEnds(e)
    \/ \E e \in ExecIds : RetrySucceeds(e)
    \/ \E e \in ExecIds : RetryRaises(e)
    \/ \E e \in ExecIds : CancelExecution(e)

SpecEngine == InitEngine /\ [][NextEngine]_vars

SpecExecution == InitExecution /\ [][NextEngine]_vars

(***************************************************************************)
(* Scheduler: specification                                                *)
(***************************************************************************)
\* The engine of a scheduler-only run: no workflow is being interpreted
EngineIdle ==
    /\ workflow_steps = <<>>
    /\ step_status = <<>>
    /\ step_error = <<>>
    /\ step_result = <<>>
    /\ executions = [e \in ExecIds |-> NoExec]

InitScheduler ==
    /\ SCHEDULER_AVAILABLE \in BOOLEAN
    /\ wiring \in {"main", "direct"}
    /\ db_session_factory \in (IF wiring = "main" THEN {FALSE} ELSE BOOLEAN)
    /\ SchedulerBuilt
    /\ db_rows = EmptyDict
    /\ now = 0
    /\ issued = {}
    /\ cancel_ok = {}
    /\ load_done = "no"
    /\ run_now_quiet = {}
    /\ emitted = {}
    /\ schedule_result = "no"
    /\ EngineIdle
    /\ OrchestratorIdle
    /\ ManagerIdle
    /\ HandlerIdle

NextScheduler ==
    \/ \E workflow_id \in RequestedWorkflowIds, trig \in TriggerInputs : Schedule(workflow_id, trig)
    \/ \E task_id \in TaskIds : Pause(task_id)
    \/ \E task_id \in TaskIds : Resume(task_id)
    \/ \E task_id \in TaskIds : Cancel(task_id)
    \/ \E task_id \in TaskIds : RunNow(task_id)
    \/ \E j \in jobs : Fire(j)
    \/ \E h \in Handles, kind \in {"fired", "manual"}, outcome \in ExecuteOutcomes :
           RunEnds(h, kind, outcome)
    \/ Tick
    \/ LoadPersistedTasks
    \/ \E available \in BOOLEAN : StartupEvent(available)
    \/ \E available \in BOOLEAN, factory \in BOOLEAN : NewScheduler(available, factory)

SpecScheduler == InitScheduler /\ [][NextScheduler]_vars

(***************************************************************************)
(* Orchestrator: specification                                             *)
(***************************************************************************)
InitOrchestrator == OrchestratorIdle /\ EngineIdle /\ SchedulerIdle /\ ManagerIdle /\ HandlerIdle

NextOrchestrator ==
    \/ /\ orch_pc = "idle"
       /\ \E reply \in Replies : OrchestratorExecute(reply)
    \/ \E present \in SUBSET (1..Len(subtasks)) : DispatchWave(present)
    \/ LeaveLoop
    \/ \E n \in 1..Len(subtasks), outcome \in AgentOutcomes : AgentReturns(n, outcome)
    \/ JoinWave
    \/ \E ok \in BOOLEAN : SynthesisEnds(ok)

SpecOrchestrator == InitOrchestrator /\ [][NextOrchestrator]_vars

\* Every agent and the LLM answer in the end
SpecOrchestratorLive == SpecOrchestrator /\ WF_vars(NextOrchestrator)

(***************************************************************************)
(* Engine: properties                                                      *)
(***************************************************************************)
Returned(x) == x.pc = "returned"

\* N >= 1 sequential TOOL steps, none guarded
PlainToolWorkflow ==
    /\ N >= 1
    /\ \A p \in 1..N : workflow_steps[p].type = "tool" /\ workflow_steps[p].condition = None

\* The step at x.i is a retry step with max_retries >= 1
AtRetryStep(x) ==
    /\ x.i \in 1..N
    /\ workflow_steps[x.i].on_error = "retry"
    /\ workflow_steps[x.i].max_retries >= 1

\* The retries of the step at x.i are used up: every attempt raised and the
\* error left the loop
RetriesExhausted(x) ==
    /\ AtRetryStep(x)
    /\ Returned(x)
    /\ x.failures = x.attempts

\* C1: in a workflow of N >= 1 unguarded TOOL steps whose tools all succeed,
\* the keys of step_results are the step ids in declaration order, the steps
\* started so far are exactly the finished ones plus the one in flight (no
\* step starts before its predecessor has finished), and a completed
\* execution has current_step = N - 1.
C1_StepOrdering ==
    \A e \in ExecIds :
        (Live(e) /\ PlainToolWorkflow /\ ~executions[e].raised) =>
            LET x == executions[e]
                finished == IF Returned(x) THEN N ELSE x.i - 1
            IN /\ x.step_results = SubSeq(StepIds, 1, finished)
               /\ x.dispatched = 1..(IF Returned(x) THEN N ELSE x.i)
               /\ Returned(x) => x.status = "completed"
               /\ x.status = "completed" => x.current_step = N - 1

C1_Witness ==
    \E e \in ExecIds :
        /\ Live(e) /\ PlainToolWorkflow /\ N >= 2
        /\ ~executions[e].raised
        /\ executions[e].status = "completed"
        /\ Len(executions[e].step_results) = N

\* C2: a retry step with max_retries = k >= 1 is never attempted more than
\* k + 1 times, and when every attempt raised it has been attempted exactly
\* k + 1 times, no later step has been started and the execution is failed.
C2_RetryAttempts ==
    \A e \in ExecIds :
        (Live(e) /\ AtRetryStep(executions[e])) =>
            LET x == executions[e]
                k == workflow_steps[x.i].max_retries
            IN /\ x.attempts <= k + 1
               /\ x.failures = k + 1 => Returned(x)
               /\ RetriesExhausted(x) =>
                     /\ x.attempts = k + 1
                     /\ x.dispatched \cap (x.i + 1)..N = {}
                     /\ x.status = "failed"

C2_Witness ==
    \E e \in ExecIds :
        /\ Live(e)
        /\ RetriesExhausted(executions[e])
        /\ workflow_steps[executions[e].i].max_retries = MaxRetries
        /\ executions[e].attempts = MaxRetries + 1
        /\ executions[e].i < N

\* C3: a retry step whose initial attempt and every retry raised ends with
\* step status failed.
C3_ExhaustedRetryStepFailed ==
    \A e \in ExecIds :
        (Live(e) /\ RetriesExhausted(executions[e])) =>
            step_status[executions[e].i] = FAILED

\* C4: over any sequence of executions of its workflow, a step that has
\* reached completed, failed or skipped never goes back to pending or running
\* (status moves only along pending -> running -> completed | failed | skipped).
C4_StatusNeverReverts ==
    [][\A p \in 1..N :
          step_status[p] \in {COMPLETED, FAILED, SKIPPED} =>
              step_status'[p] \notin {PENDING, RUNNING}
      ]_vars

\* C5: once cancel() has marked an execution cancelled, the loop starts no
\* further step and the status never changes again.
C5_CancelledStaysCancelled ==
    [][\A e \in ExecIds :
          (Live(e) /\ executions[e].status = "cancelled") =>
              /\ executions'[e].status = "cancelled"
              /\ executions'[e].dispatched = executions[e].dispatched
      ]_vars

(***************************************************************************)
(* Scheduler: properties                                                   *)
(***************************************************************************)
Known(id) == id \in DOMAIN scheduled_tasks

TaskOf(id) == task_objs[scheduled_tasks[id]]

\* A persisted task that recovery has to bring back
Recoverable(id) ==
    /\ id \in DOMAIN db_rows
    /\ db_rows[id].enabled
    /\ ~ExpiredDate(db_rows[id])

\* C6: once cancel(task_id) has returned True the task has no job, no entry
\* in the in-memory table and no row in durable storage, in every later
\* state, also when a run of it was in flight and finishes afterwards.
C6_CancelledTaskStaysRemoved ==
    \A id \in cancel_ok :
        /\ JobsOf(jobs, id) = {}
        /\ ~Known(id)
        /\ id \notin DOMAIN db_rows

\* C7: after the application's startup sequence (main.py) every persisted
\* enabled task is in the in-memory table again with a registered job.
C7_StartupRecoversTasks ==
    (wiring = "main" /\ SCHEDULER_AVAILABLE) =>
        \A id \in TaskIds :
            Recoverable(id) => Known(id) /\ JobsOf(jobs, id) # {}

\* C8: after a restart (table and job store empty) followed by
\* load_persisted_tasks(), every persisted enabled task whose trigger has not
\* expired is in the table, has exactly one job and has next_run set from it.
C8_RecoveryRebuildsEveryTask ==
    (load_done = "after_restart" /\ SCHEDULER_AVAILABLE) =>
        \A id \in TaskIds :
            Recoverable(id) =>
                /\ Known(id)
                /\ Cardinality(JobsOf(jobs, id)) = 1
                /\ TaskOf(id).next_run = get_job(jobs, id).next_run_time

\* C9: no task id has more than one registered job, and every enabled task
\* of the in-memory table has exactly one.
C9_OneJobPerEnabledTask ==
    \A id \in TaskIds :
        /\ Cardinality(JobsOf(jobs, id)) <= 1
        /\ (Known(id) /\ TaskOf(id).enabled) => Cardinality(JobsOf(jobs, id)) = 1

\* C10: load_persisted_tasks() gives a date task whose run_date has passed
\* no job and no table entry, and starts no run of it.
C10_LoadSkipsExpiredDates ==
    [][LoadPersistedTasks =>
          \A id \in DOMAIN db_rows :
              (db_rows[id].trigger_type = "date" /\ db_rows[id].run_date <= now) =>
                  /\ JobsOf(jobs', id) \subseteq JobsOf(jobs, id)
                  /\ Known(id)' => (Known(id) /\ scheduled_tasks'[id] = scheduled_tasks[id])
                  /\ runs' = runs
      ]_vars

C10_Witness ==
    /\ load_done # "no"
    /\ SCHEDULER_AVAILABLE
    /\ \E id \in DOMAIN db_rows :
           /\ db_rows[id].enabled
           /\ db_rows[id].aware
           /\ db_rows[id].trigger_type = "date"
           /\ db_rows[id].run_date <= now
           /\ ~Known(id)
           /\ JobsOf(jobs, id) = {}

\* resume(task_id) returns True: the backend is there, the task is in the
\* table and resume_job finds its job
ResumeReturnsTrue(task_id) ==
    /\ SCHEDULER_AVAILABLE
    /\ Known(task_id)
    /\ JobsOf(jobs, task_id) # {}

\* A persisted task that was paused and has not been cancelled
PausedRow(id) ==
    /\ id \in DOMAIN db_rows
    /\ ~db_rows[id].enabled
    /\ id \notin cancel_ok

\* C11: a paused task stays known with enabled = false and its job has no
\* fire time, and a paused task that was not cancelled can be resumed in any
\* later state, also after a restart followed by load_persisted_tasks().
C11_PausedTaskResumable ==
    /\ \A id \in DOMAIN scheduled_tasks :
           (SCHEDULER_AVAILABLE /\ ~TaskOf(id).enabled) =>
               \A j \in JobsOf(jobs, id) : j.next_run_time = NoTime
    /\ (load_done = "after_restart" /\ SCHEDULER_AVAILABLE) =>
           \A id \in TaskIds :
               (PausedRow(id) /\ db_rows[id].trigger_type # "date") =>
                   ResumeReturnsTrue(id)

\* C12: when a run started by run_now() finishes and no trigger fire, pause
\* or resume of the task happened since run_now() was called, the next_run of
\* the task in the table, enabled or paused, is what it was before.
C12_RunNowKeepsNextRun ==
    [][\A id \in DOMAIN scheduled_tasks :
          LET h == scheduled_tasks[id]
          IN (h \in run_now_quiet /\ \E outcome \in ExecuteOutcomes : RunEnds(h, "manual", outcome)) =>
                 task_objs'[h].next_run = task_objs[h].next_run
      ]_vars

\* A trigger-fired run of the task object h fails in this step: the workflow
\* is missing, engine.execute raised, or the execution came back failed
FiredRunFails(h) ==
    \/ RunEnds(h, "fired", "failed")
    \/ RunEnds(h, "fired", "raised")
    \/ \E j \in jobs :
           /\ j.task = h
           /\ j.next_run_time = now
           /\ Instances(j.id) = 0
           /\ ~WorkflowFound(h)
           /\ Fire(j)

\* C13: a failed scheduled run leaves the task enabled and, for a recurring
\* trigger, its job registered, advances last_run and run_count by that run
\* and emits scheduled_run_failed.
C13_FailedRunKeepsSchedule ==
    [][\A id \in DOMAIN scheduled_tasks :
          LET h == scheduled_tasks[id]
          IN FiredRunFails(h) =>
                 /\ task_objs'[h].enabled = task_objs[h].enabled
                 /\ task_objs[h].trigger_type # "date" => JobsOf(jobs', id) # {}
                 /\ task_objs'[h].run_count = task_objs[h].run_count + 1
                 /\ task_objs'[h].last_run = now
                 /\ Event("scheduled_run_failed", None) \in emitted'
      ]_vars

\* C14: schedule() never raises, and when it returns None it has registered
\* no job, left the in-memory table alone, persisted nothing and emitted no
\* task_scheduled event.
C14_ScheduleReturnsNone ==
    [][/\ schedule_result' # "raised"
       /\ schedule_result' = "None" =>
              /\ jobs' = jobs
              /\ scheduled_tasks' = scheduled_tasks
              /\ db_rows' = db_rows
              /\ Event("task_scheduled", None) \notin emitted'
      ]_vars

\* C15: schedule() of a date trigger whose run_date has passed returns no
\* task, registers no job and adds nothing to the in-memory table or to
\* durable storage.
C15_PastDateRejected ==
    [][\A workflow_id \in RequestedWorkflowIds, trig \in TriggerInputs :
          (/\ trig.trigger_type = "date"
           /\ trig.valid
           /\ Before(trig.run_date, now)
           /\ Schedule(workflow_id, trig)) =>
              /\ schedule_result' # "task"
              /\ jobs' = jobs
              /\ scheduled_tasks' = scheduled_tasks
              /\ db_rows' = db_rows
      ]_vars

(***************************************************************************)
(* Orchestrator: properties                                                *)
(***************************************************************************)
\* The dependency list of a subtask is met by the keys of completed
DependenciesMet(id) == dependencies[id] \subseteq DOMAIN completed

\* C16: every subtask handed to its agent has all the ids of its dependency
\* list among the keys of completed, and a wave holds every pending subtask
\* whose dependencies are met at that moment.
C16_DependencyGating ==
    /\ running \subseteq wave
    /\ orch_pc = "wave" =>
           /\ \A n \in wave : DependenciesMet(subtasks[n].id)
           /\ \A n \in 1..Len(subtasks) :
                  (subtasks[n].status = "pending" /\ DependenciesMet(subtasks[n].id)) =>
                      n \in wave

C16_Witness ==
    /\ orch_pc = "wave"
    /\ orch_step = 1
    /\ Len(subtasks) = 3
    /\ IdsOf(subtasks) = SubtaskIds
    /\ dependencies["task_1"] = {}
    /\ dependencies["task_2"] = {}
    /\ dependencies["task_3"] = {"task_1", "task_2"}
    /\ DOMAIN completed = {"task_1", "task_2"}
    /\ running = {3}

\* The subtasks that can ever become ready: the least set closed under
\* "all dependencies are in the set"
RECURSIVE Completable(_, _)
Completable(S, n) ==
    IF n = 0 THEN S
    ELSE Completable(S \cup {id \in IdsOf(subtasks) : dependencies[id] \subseteq S}, n - 1)

\* The subtasks on or behind a dependency cycle or an undeclared id
Blocked == IdsOf(subtasks) \ Completable({}, Len(subtasks))

\* C17: the subtasks on or behind a cycle or an undeclared dependency are never
\* dispatched and never enter completed; with the ready set empty the loop
\* is left at once; and execute() comes to return a result.
C17_DeadlockTerminates ==
    /\ [](/\ \A n \in wave : subtasks[n].id \notin Blocked
          /\ \A id \in Blocked : id \notin DOMAIN completed)
    /\ [](orch_pc = "returned" => orch_result # NoResult)
    /\ [][(orch_pc = "loop"
           /\ \A n \in 1..Len(subtasks) :
                  subtasks[n].status = "pending" => ~DependenciesMet(subtasks[n].id))
          => orch_pc' = "synthesizing"]_vars
    /\ (orch_pc = "loop") ~> (orch_pc = "returned")

C17_Witness ==
    /\ orch_pc = "returned"
    /\ orch_result # NoResult
    /\ Len(subtasks) = 3
    /\ IdsOf(subtasks) = SubtaskIds
    /\ "task_2" \in dependencies["task_3"]
    /\ "task_3" \in dependencies["task_2"]
    /\ Blocked = {"task_2", "task_3"}
    /\ DOMAIN completed = {"task_1"}

\* C18: an agent that raises gives its subtask a failed result and leaves the
\* rest of the wave running; the wave is left only when no subtask of it is
\* running, and from then on each of its subtasks is a key of completed.
C18_WaveJoinsAll ==
    /\ [](orch_pc # "wave" =>
             (running = {} /\ \A n \in wave : subtasks[n].id \in DOMAIN completed))
    /\ [][\A n \in running :
             AgentReturns(n, "raises") =>
                 /\ n \in DOMAIN task_results'
                 /\ ~task_results'[n].success
                 /\ running' = running \ {n}
                 /\ orch_pc' = "wave"
         ]_vars

C18_Witness ==
    /\ orch_pc = "loop"
    /\ orch_step = 1
    /\ wave = {1, 2}
    /\ DOMAIN completed = {"task_1", "task_2"}
    /\ completed["task_1"] = AgentResult(FALSE, "exception")
    /\ completed["task_2"] = AgentResult(TRUE, None)

(***************************************************************************)
(* Engine: guards and the skip policy                                      *)
(***************************************************************************)
\* The context as it stood when the loop reached position p: a key
\* "{step.id}_output" enters the context only when that step returns
\* (line 162) and no key is ever removed.
ContextAt(x, p) == x.context \ {OutputKeys[q] : q \in p..N}

InStepResults(x, p) == \E n \in 1..Len(x.step_results) : x.step_results[n] = StepIds[p]

\* C19: in one execution, a step the loop has reached whose guard was false
\* against the context of that moment has not been dispatched, has status
\* skipped, no error and no entry in step_results, and the loop has gone on
\* to the next step (or, after the last step, the execution is completed);
\* a reached step without a guard or with a true guard has been dispatched.
C19_GuardedStepSkipped ==
    \A e \in ExecIds :
        Live(e) =>
            LET x == executions[e] IN
            \A p \in 1..N :
                p <= x.i =>
                    LET guard == workflow_steps[p].condition IN
                    IF guard # None /\ ~evaluate_condition(guard, ContextAt(x, p))
                    THEN /\ p \notin x.dispatched
                         /\ step_status[p] = SKIPPED
                         /\ step_error[p] = None
                         /\ ~InStepResults(x, p)
                         /\ IF p < N THEN x.i > p
                            ELSE Returned(x) /\ x.status = "completed"
                    ELSE p \in x.dispatched

\* A first step whose guard is true and which is skipped on error, and a
\* second step guarded by the output of the first: its guard is false at
\* the moment it is reached.
C19_Witness ==
    /\ N = 2
    /\ Live("e1")
    /\ workflow_steps[1].condition = "flag"
    /\ workflow_steps[2].condition = "s1_output"
    /\ 1 \in executions["e1"].dispatched
    /\ step_status[1] = SKIPPED
    /\ 2 \notin executions["e1"].dispatched
    /\ step_status[2] = SKIPPED
    /\ executions["e1"].status = "completed"

\* C20: in one execution, a step with on_error = "skip" whose handler has
\* raised has status skipped, the loop has gone on past it, the step after
\* it has been started or passed over by its own guard, and when the
\* execution has returned it is completed unless another step, whose policy
\* is not skip, raised and ended it.
C20_SkipPolicyContinues ==
    \A e \in ExecIds :
        Live(e) =>
            LET x == executions[e] IN
            \A p \in 1..N :
                (/\ workflow_steps[p].on_error = "skip"
                 /\ p \in x.dispatched
                 /\ step_error[p] # None) =>
                    /\ step_status[p] = SKIPPED
                    /\ x.i > p
                    /\ p < N => (p + 1 \in x.dispatched \/ step_status[p + 1] = SKIPPED)
                    /\ Returned(x) =>
                          \/ x.status = "completed"
                          \/ /\ x.status = "failed"
                             /\ x.i \in 1..N
                             /\ workflow_steps[x.i].on_error # "skip"
                             /\ x.failures >= 1

C20_Witness ==
    /\ N = 2
    /\ Live("e1")
    /\ workflow_steps[1].on_error = "skip"
    /\ step_error[1] # None
    /\ step_status[1] = SKIPPED
    /\ step_status[2] = COMPLETED
    /\ executions["e1"].step_results = <<"s2">>
    /\ executions["e1"].status = "completed"

\* C21: in one execution, a step with on_error = "fail" whose handler has
\* raised has status failed; every later step is still pending and has not
\* been started; the execution is failed, carries the error's message and
\* execute() has returned it.
C21_FailPolicyAborts ==
    \A e \in ExecIds :
        Live(e) =>
            LET x == executions[e] IN
            \A p \in 1..N :
                (/\ workflow_steps[p].on_error = "fail"
                 /\ p \in x.dispatched
                 /\ step_error[p] # None) =>
                    /\ step_status[p] = FAILED
                    /\ \A q \in (p + 1)..N :
                          step_status[q] = PENDING /\ q \notin x.dispatched
                    /\ Returned(x)
                    /\ x.status = "failed"
                    /\ x.error = step_error[p]

C21_Witness ==
    /\ N = 2
    /\ Live("e1")
    /\ workflow_steps[1].on_error = "fail"
    /\ step_status[1] = FAILED
    /\ step_status[2] = PENDING
    /\ executions["e1"].status = "failed"
    /\ executions["e1"].error # None

\* C22: the steps of the stored workflow show to each execution only that
\* execution's own run (a step that is running, completed, failed or skipped
\* was reached by every live execution, and a recorded error or result
\* belongs to a step the execution started), and no step of execute()
\* changes the stored workflow's steps.
C22_DefinitionReadOnly ==
    /\ [](\A e \in ExecIds :
            Live(e) =>
                \A p \in 1..N :
                    /\ step_status[p] # PENDING => p <= executions[e].i
                    /\ step_error[p] # None => p \in executions[e].dispatched
                    /\ step_result[p] # None => p \in executions[e].dispatched)
    /\ [][/\ step_status' = step_status
          /\ step_error' = step_error
          /\ step_result' = step_result
          /\ workflow_steps' = workflow_steps]_vars

(***************************************************************************)
(* Orchestrator: decomposition and the wave loop                           *)
(***************************************************************************)
\* C23: after a decomposition reply without a JSON object, or with JSON that
\* gives no usable list of subtasks, the decomposition is the single subtask
\* task_1 without dependencies; and whatever the reply, execute() does not
\* return from the decomposition (a return at that point is the failed
\* result of its except clause).
C23_DecompositionFallback ==
    /\ [](llm_reply \in {"no_json", "invalid_json", "no_subtasks", "malformed"} =>
             /\ Len(subtasks) = 1
             /\ subtasks[1].id = "task_1"
             /\ dependencies = [id \in {"task_1"} |-> {}])
    /\ [][orch_pc = "idle" => orch_pc' # "returned"]_vars

\* C27: when the wave loop has been left, no pending subtask has all its
\* dependencies in completed: either every subtask is in completed, or the
\* subtasks still outstanding are not ready.
C27_LoopExitsOnlyWhenNothingReady ==
    orch_pc = "synthesizing" =>
        \A n \in 1..Len(subtasks) :
            subtasks[n].status = "pending" =>
                \E d \in dependencies[subtasks[n].id] : d \notin DOMAIN completed

\* C28: a subtask is handed to its agent only when every subtask it depends
\* on has succeeded: the dependents of a failed subtask are never dispatched.
C28_FailedDependencyBlocks ==
    \A n \in running :
        \A d \in dependencies[subtasks[n].id] :
            d \in DOMAIN completed => completed[d].success

\* C30: every subtask of the list is handed to an agent at most once, and
\* completed never has more entries than the list has subtasks.
C30_DispatchedAtMostOnce ==
    /\ \A n \in 1..Len(subtasks) : dispatches[n] <= 1
    /\ Cardinality(DOMAIN completed) <= Len(subtasks)

(***************************************************************************)
(* Workflow manager: export and import (workflow_manager.py)               *)
(***************************************************************************)
\* StepType: a member, its .value, and StepType(value)
StepTypeValues == {"tool", "agent", "condition", "loop", "parallel", "wait", "transform"}
StepTypeMember(value) == [member |-> value]
StepTypeValue(type) == type.member

\* datetime.isoformat() and datetime.fromisoformat(): a datetime is a clock
\* reading, NoTime where the source has None; the string carries the reading
isoformat(t) == [iso |-> t]
fromisoformat(text) == text.iso

\* WorkflowStep defaults
DefaultTimeout == 300

\* The WorkflowStep objects a stored workflow may hold: the declared fields
\* and the runtime fields an execution has left on the object
StoredSteps ==
    [id : {"s1"}, name : {"step"},
     type : {StepTypeMember("tool")},
     config : {[k \in {"tool"} |-> "web_search"]},
     inputs : {[k \in {"query"} |-> "topic"]},
     condition : {None, "flag"},
     on_error : {"fail", "skip"},
     max_retries : {0, DefaultMaxRetries},
     timeout : {DefaultTimeout},
     status : {PENDING}, result : {None}, error : {None}]
    \cup
    [id : {"s2"}, name : {"other"},
     type : {StepTypeMember("agent")},
     config : {EmptyDict},
     inputs : {EmptyDict},
     condition : {""},
     on_error : {"retry"},
     max_retries : {1},
     timeout : {60},
     status : {COMPLETED}, result : {"result"}, error : {None, "error"}]

StoredStepLists == UNION {[1..n -> StoredSteps] : n \in 0..2}

\* The Workflow objects WorkflowManager.workflows may hold
StoredWorkflows ==
    [id : {"wf"}, name : {"workflow"}, description : {""}, version : {"1.1"},
     steps : StoredStepLists,
     variables : {EmptyDict, [k \in {"x"} |-> 5]},
     triggers : {<<>>},
     created_at : {0}, updated_at : {0}, created_by : {""},
     tags : {<<>>, <<"a", "b">>}]

\* Ids import_workflow may draw (uuid4 never repeats)
ImportIds == {"i1", "i2"}

\* A mutant of dict.get: the default is returned although the key is present
DictGetDefault(d, key, default) == default

\* dict.get(key, default)
DictGet(d, key, default) == IF key \in DOMAIN d THEN d[key] ELSE default

\* _workflow_to_dict, lines 146-158: the dict of one step
step_to_dict(step) ==
    [id |-> step.id,
     name |-> step.name,
     type |-> StepTypeValue(step.type),
     config |-> step.config,
     inputs |-> step.inputs,
     condition |-> step.condition,
     on_error |-> step.on_error,
     max_retries |-> step.max_retries,
     timeout |-> step.timeout]

\* WorkflowManager._workflow_to_dict
workflow_to_dict(workflow) ==
    [id |-> workflow.id,
     name |-> workflow.name,
     description |-> workflow.description,
     version |-> workflow.version,
     steps |-> [n \in 1..Len(workflow.steps) |-> step_to_dict(workflow.steps[n])],
     variables |-> workflow.variables,
     triggers |-> workflow.triggers,
     created_at |-> isoformat(workflow.created_at),
     updated_at |-> isoformat(workflow.updated_at),
     created_by |-> workflow.created_by,
     tags |-> workflow.tags]

\* _dict_to_workflow, lines 171-182: WorkflowStep(...) from the dict of a
\* step; the runtime fields take the defaults of the class
dict_to_step(step_data) ==
    [id |-> step_data["id"],
     name |-> step_data["name"],
     type |-> StepTypeMember(step_data["type"]),
     config |-> DictGet(step_data, "config", EmptyDict),
     inputs |-> DictGet(step_data, "inputs", EmptyDict),
     condition |-> DictGet(step_data, "condition", None),
     on_error |-> DictGet(step_data, "on_error", "fail"),
     max_retries |-> DictGet(step_data, "max_retries", DefaultMaxRetries),
     timeout |-> DictGet(step_data, "timeout", DefaultTimeout),
     status |-> PENDING, result |-> None, error |-> None]

\* Workflow.__init__ (workflow_engine.py 61-66): a missing timestamp is now
Timestamp(t) == IF t = NoTime THEN now ELSE t

\* WorkflowManager._dict_to_workflow
dict_to_workflow(data) ==
    LET steps == DictGet(data, "steps", <<>>)
        created == DictGet(data, "created_at", isoformat(NoTime))
        updated == DictGet(data, "updated_at", isoformat(NoTime))
    IN [id |-> data["id"],
        name |-> data["name"],
        description |-> DictGet(data, "description", ""),
        version |-> DictGet(data, "version", "1.0"),
        steps |-> [n \in 1..Len(steps) |-> dict_to_step(steps[n])],
        variables |-> DictGet(data, "variables", EmptyDict),
        triggers |-> DictGet(data, "triggers", <<>>),
        created_at |-> Timestamp(fromisoformat(created)),
        updated_at |-> Timestamp(fromisoformat(updated)),
        created_by |-> DictGet(data, "created_by", ""),
        tags |-> DictGet(data, "tags", <<>>)]

\* json.dumps and json.loads on the dict of _workflow_to_dict: its keys are
\* strings and its values strings, numbers, None, lists and dicts of these
\* (the enum and the datetimes were turned into strings before), which the
\* JSON text gives back as they were
json_dumps(data) == [ok |-> TRUE, text |-> data]
json_loads(json_str) == json_str.text

\* WorkflowManager.export(workflow_id): the JSON string, or None
export(workflow_id) ==
    IF workflow_id \in DOMAIN workflows
    THEN json_dumps(workflow_to_dict(workflows[workflow_id]))
    ELSE NotExported

\* A client calls export(workflow_id)
Export(workflow_id) ==
    /\ exported' = export(workflow_id)
    /\ imported' = NotImported
    /\ UNCHANGED <<workflows, engineVars, schedVars, orchVars, handlerVars>>

\* import_workflow(json_str) on the string the latest export() returned
ImportWorkflow(new_id) ==
    /\ exported # NotExported
    /\ new_id \notin DOMAIN workflows
    /\ LET data == [json_loads(exported) EXCEPT !.id = new_id,
                                                !.created_at = isoformat(now),
                                                !.updated_at = isoformat(now)]
           workflow == dict_to_workflow(data)
       IN /\ workflows' = Put(workflows, workflow.id, workflow)
          /\ imported' = [ok |-> TRUE, id |-> workflow.id, of |-> json_loads(exported).id]
    /\ UNCHANGED <<exported, engineVars, schedVars, orchVars, handlerVars>>

InitManager ==
    /\ \E workflow \in StoredWorkflows : workflows = [id \in {"wf"} |-> workflow]
    /\ exported = NotExported
    /\ imported = NotImported
    /\ EngineIdle
    /\ SchedulerIdle
    /\ OrchestratorIdle
    /\ HandlerIdle

NextManager ==
    \/ \E workflow_id \in {"wf", "missing"} \cup ImportIds : Export(workflow_id)
    \/ \E new_id \in ImportIds : ImportWorkflow(new_id)

SpecManager == InitManager /\ [][NextManager]_vars

\* The declared fields of a step
Declared(step) ==
    <<step.id, step.name, step.type, step.config, step.inputs, step.condition,
      step.on_error, step.max_retries, step.timeout>>

\* C24: the workflow import_workflow() makes of the export of a stored
\* workflow has the same number of steps, each with the same id, name, type,
\* config, inputs, condition, on_error, max_retries and timeout as the step at
\* its position in the original, and the same variables and tags.
C24_ExportImportRoundTrip ==
    imported # NotImported =>
        LET original == workflows[imported.of]
            copy == workflows[imported.id]
        IN /\ Len(copy.steps) = Len(original.steps)
           /\ \A n \in 1..Len(original.steps) :
                  Declared(copy.steps[n]) = Declared(original.steps[n])
           /\ copy.variables = original.variables
           /\ copy.tags = original.tags

C24_Witness ==
    /\ imported # NotImported
    /\ imported.id = "i2"
    /\ imported.of = "i1"
    /\ Len(workflows["i2"].steps) = 2
    /\ workflows["wf"].steps[1].condition = "flag"
    /\ workflows["wf"].steps[1].max_retries = 0
    /\ workflows["wf"].steps[2].status = COMPLETED
    /\ workflows["i2"].steps[2].status = PENDING
    /\ workflows["i2"].variables = [k \in {"x"} |-> 5]
    /\ workflows["i2"].tags = <<"a", "b">>

\* C25: in one execution, a step with status completed, whether its first
\* attempt or a retry returned, has its result under its id in step_results
\* and under "{step.id}_output" in the context.
C25_CompletedStepRecorded ==
    \A e \in ExecIds :
        Live(e) =>
            \A p \in 1..N :
                step_status[p] = COMPLETED =>
                    /\ InStepResults(executions[e], p)
                    /\ OutputKeys[p] \in executions[e].context

(***************************************************************************)
(* Engine: the handler of one step (_execute_step and the policy of        *)
(* execute() for the error it raises)                                      *)
(***************************************************************************)
\* WorkflowEngine.tools and WorkflowEngine.agents: the registered names
tools == {"web_search"}
agents == {"researcher"}

\* A sub-task config of a PARALLEL step: "type" and the tool or agent it names
SubTasks ==
    [type : {"tool"}, name : {"web_search", "no_such_tool"}]
    \cup [type : {"agent"}, name : {"researcher", "no_such_agent"}]
    \cup [type : {"webhook"}, name : {"web_search"}]

\* The config of a LOOP body or a CONDITION branch: {"tool": name}, or {}
Branches == [tool : {None, "web_search", "no_such_tool"}]

\* The steps handed to _execute_step, inputs resolved.  "items" is the number
\* of items of a LOOP, "condition" what its expression evaluates to.
HandlerSteps ==
    [type : {"tool"}, on_error : {"fail", "skip"},
     config : [tool : {"web_search", "no_such_tool"}]]
    \cup
    [type : {"agent"}, on_error : {"fail", "skip"},
     config : [agent : {"researcher", "no_such_agent"}]]
    \cup
    [type : {"parallel"}, on_error : {"fail", "skip"},
     config : [tasks : UNION {[1..n -> SubTasks] : n \in 0..2}]]
    \cup
    [type : {"loop"}, on_error : {"fail", "skip"},
     config : [items : {0, 1, 2}, body : Branches]]
    \cup
    [type : {"condition"}, on_error : {"fail", "skip"},
     config : [condition : BOOLEAN, then : Branches, else : Branches]]

\* What tool.execute or agent.execute does: a result with success True, a
\* result with success False and an error, or an exception
CallOutcomes == {"success", "failure", "raises"}

\* Lines 262-263 and 283-284: the name is in self.tools / self.agents
Registered(call) ==
    \/ call.type = "tool" /\ call.name \in tools
    \/ call.type = "agent" /\ call.name \in agents

\* The calls of _execute_tool_step / _execute_agent_step the handler of the
\* step makes, in order
Calls(step) ==
    CASE step.type = "tool" -> <<[type |-> "tool", name |-> step.config.tool]>>
      [] step.type = "agent" -> <<[type |-> "agent", name |-> step.config.agent]>>
      [] step.type = "parallel" -> step.config.tasks
      [] step.type = "loop" ->
            [k \in 1..step.config.items |-> [type |-> "tool", name |-> step.config.body.tool]]
      [] step.type = "condition" ->
            IF step.config.condition
            THEN <<[type |-> "tool", name |-> step.config.then.tool]>>
            ELSE IF step.config.else.tool # None
                 THEN <<[type |-> "tool", name |-> step.config.else.tool]>>
                 ELSE <<>>

\* Lines 305-310: a sub-task of a PARALLEL step that is neither a tool nor an
\* agent gives the entry {"error": "Unknown task type"}
UnknownType(call) == call.type \notin {"tool", "agent"}

\* The entry a returned call leaves
CallEntry(outcome) ==
    IF outcome = "success" THEN AgentResult(TRUE, None) ELSE AgentResult(FALSE, "tool error")

\* Lines 155-157: the handler returned
StepCompleted ==
    /\ one_status' = COMPLETED
    /\ handler_pc' = "done"
    /\ UNCHANGED one_error

\* Lines 169-193: the handler raised; on_error is fail or skip
StepErrored ==
    /\ one_error' = "error"
    /\ one_status' = IF one_step'.on_error = "skip" THEN SKIPPED ELSE FAILED
    /\ handler_pc' = "done"

\* execute() reaches the step and awaits _execute_step, up to the first
\* await that suspends.  A PARALLEL step starts every run_task under one
\* gather: each runs up to its own tool or agent call before the awaiting
\* step is resumed, and gather passes the first exception on at once.
ExecuteStep(step) ==
    /\ handler_pc = "idle"
    /\ one_step' = step
    /\ LET calls == Calls(step) IN
       IF step.type = "parallel"
       THEN LET unknown == {k \in 1..Len(calls) : UnknownType(calls[k])}
                started == {k \in 1..Len(calls) : Registered(calls[k])}
            IN /\ call_results' = [k \in unknown |-> [error |-> "Unknown task type"]]
               /\ pending_calls' = started
               /\ IF unknown \cup started # 1..Len(calls) THEN StepErrored
                  ELSE IF started = {} THEN StepCompleted
                  ELSE /\ handler_pc' = "awaiting"
                       /\ one_status' = RUNNING
                       /\ UNCHANGED one_error
       ELSE /\ call_results' = EmptyDict
            /\ IF calls = <<>>
               THEN pending_calls' = {} /\ StepCompleted
               ELSE IF ~Registered(calls[1])
               THEN pending_calls' = {} /\ StepErrored
               ELSE /\ pending_calls' = {1}
                    /\ handler_pc' = "awaiting"
                    /\ one_status' = RUNNING
                    /\ UNCHANGED one_error
    /\ UNCHANGED <<engineVars, schedVars, orchVars, mgrVars>>

\* The tool or agent call at position k is over.  An exception goes to the
\* awaiting step; when the step has ended already, nobody takes the outcome.
CallEnds(k, outcome) ==
    /\ k \in pending_calls
    /\ UNCHANGED one_step
    /\ IF handler_pc = "done"
       THEN /\ pending_calls' = pending_calls \ {k}
            /\ UNCHANGED <<handler_pc, one_status, one_error, call_results>>
       ELSE IF outcome = "raises"
       THEN /\ pending_calls' = pending_calls \ {k}
            /\ UNCHANGED call_results
            /\ StepErrored
       ELSE /\ call_results' = Put(call_results, k, CallEntry(outcome))
            /\ IF one_step.type = "parallel"
               THEN /\ pending_calls' = pending_calls \ {k}
                    /\ IF pending_calls = {k} THEN StepCompleted
                       ELSE UNCHANGED <<handler_pc, one_status, one_error>>
               ELSE IF k < Len(Calls(one_step))
                    THEN /\ pending_calls' = {k + 1}
                         /\ UNCHANGED <<handler_pc, one_status, one_error>>
                    ELSE /\ pending_calls' = {}
                         /\ StepCompleted
    /\ UNCHANGED <<engineVars, schedVars, orchVars, mgrVars>>

InitHandler ==
    /\ HandlerIdle
    /\ EngineIdle
    /\ SchedulerIdle
    /\ OrchestratorIdle
    /\ ManagerIdle

NextHandler ==
    \/ /\ handler_pc = "idle"
       /\ \E step \in HandlerSteps : ExecuteStep(step)
    \/ \E k \in 1..2, outcome \in CallOutcomes : CallEnds(k, outcome)

SpecHandler == InitHandler /\ [][NextHandler]_vars

\* C26: a PARALLEL step has not ended while a sub-task it started is still
\* running, and it ends completed with one entry in its results for each
\* sub-task, whether or not a sub-task raised.
C26_ParallelJoinsAll ==
    (one_step.type = "parallel" /\ handler_pc = "done") =>
        /\ pending_calls = {}
        /\ one_status = COMPLETED
        /\ DOMAIN call_results = 1..Len(one_step.config.tasks)

\* The step names a tool, an agent or a sub-task type that is not registered
NamesUnregistered(step) ==
    CASE step.type = "tool" -> step.config.tool \notin tools
      [] step.type = "agent" -> step.config.agent \notin agents
      [] step.type = "parallel" ->
            \E k \in 1..Len(step.config.tasks) : ~Registered(step.config.tasks[k])
      [] step.type = "loop" -> step.config.body.tool \notin tools \cup {None}
      [] step.type = "condition" ->
            \/ step.config.then.tool \notin tools \cup {None}
            \/ step.config.else.tool \notin tools \cup {None}
      [] OTHER -> FALSE

\* C29: a step that names an unregistered tool, agent or sub-task type and
\* has ended is not completed and carries an error.
C29_UnknownCapabilityFatal ==
    (handler_pc = "done" /\ NamesUnregistered(one_step)) =>
        /\ one_status # COMPLETED
        /\ one_error # None

====
